---------------------------- MODULE Spec2Model ----------------------------
(***************************************************************************)
(* cookbook/include/utils_onnx.py: the graph node factory add_node, the   *)
(* output marking utility mark_graph_output and the fixed network         *)
(* builders build_*_network_onnx, over the object model of the graph      *)
(* library (Graph.nodes / inputs / outputs, Node, Variable, Constant).    *)
(*                                                                         *)
(* Objects are modelled by identity: a Variable or Constant is an index   *)
(* into the heap `tensors`; a Node is a record of the sequence `nodes`.   *)
(* Names are real strings, built as the f-strings of the source build     *)
(* them.                                                                   *)
(***************************************************************************)
EXTENDS Integers, Sequences, FiniteSets, TLC

VARIABLES
    nodes,      \* graph.nodes: sequence of Node records
    tensors,    \* heap of Variable / Constant objects, indexed by identity
    inputs,     \* graph.inputs: sequence of tensor identities
    outputs,    \* graph.outputs: sequence of tensor identities
    n,          \* the caller's naming counter (local `n` of the builders)
    pc,         \* position of the caller
    frame,      \* the caller's local frame (function, arguments, locals)
    call,       \* arguments of the most recent call
    ret,        \* outcome of the most recent call (value or exception)
    pre,        \* the graph as it was when the most recent call started
    calls       \* the successful add_node calls so far: counter passed, counter returned

vars == <<nodes, tensors, inputs, outputs, n, pc, frame, call, ret, pre, calls>>

---------------------------------------------------------------------------
(* Bounds of the model.                                                    *)

MaxNodes == 2       \* add_node calls of a free caller / nodes of a loaded graph
MaxOutputs == 2     \* longest datatype_list / shape_list passed to add_node

---------------------------------------------------------------------------
(* Small helpers over sequences.                                           *)

Range(s) == {s[i] : i \in 1..Len(s)}

RECURSIVE Concat(_)
Concat(ss) == IF ss = <<>> THEN <<>> ELSE Head(ss) \o Concat(Tail(ss))

Snapshot == [nodes |-> nodes, tensors |-> tensors, inputs |-> inputs, outputs |-> outputs]

NoCall == [fn |-> "none"]
NoRet == [kind |-> "none"]

---------------------------------------------------------------------------
(* add_node                                                                *)

DigitChar == <<"0", "1", "2", "3", "4", "5", "6", "7", "8", "9">>

\* f"{number}" of a non-negative int: its decimal digits.
RECURSIVE Str(_)
Str(k) == IF k < 10 THEN DigitChar[k + 1] ELSE Str(k \div 10) \o DigitChar[(k % 10) + 1]

\* a weaker assertion: shapes left over are silently dropped
assert_ok_truncating(isList, datatype_list, shape_list) ==
    isList => Len(datatype_list) <= Len(shape_list)

\* isinstance(datatype_list, list) => assert len(datatype_list) == len(shape_list)
assert_ok(isList, datatype_list, shape_list) ==
    isList => Len(datatype_list) = Len(shape_list)

\* else: datatype_list = [datatype_list]; shape_list = [shape_list]
as_list(isList, x) == IF isList THEN x ELSE <<x>>

node_name(prefix, number, node_type) ==
    prefix \o "-N-" \o Str(number) \o "-" \o node_type

\* tensor names that leave the output position out
tensor_name_no_index(prefix, number, node_type, i, suffix) ==
    LET base == prefix \o "-V-" \o Str(number) \o "-" \o node_type
    IN  IF Len(suffix) > 0 THEN base \o "-" \o suffix ELSE base

\* tensor names that count the output positions from 1
tensor_name_from_one(prefix, number, node_type, i, suffix) ==
    LET base == prefix \o "-V-" \o Str(number) \o "-" \o node_type \o "-" \o Str(i + 1)
    IN  IF Len(suffix) > 0 THEN base \o "-" \o suffix ELSE base

\* i is the Python index (0-based)
tensor_name(prefix, number, node_type, i, suffix) ==
    LET base == prefix \o "-V-" \o Str(number) \o "-" \o node_type \o "-" \o Str(i)
    IN  IF Len(suffix) > 0 THEN base \o "-" \o suffix ELSE base

n_output(datatype_list) == Len(datatype_list)

\* the gs.Variable objects of the loop, in order
output_list(datatype_list, shape_list, prefix, suffix, number, node_type) ==
    [j \in 1..n_output(datatype_list) |->
        [kind |-> "Variable",
         name |-> tensor_name(prefix, number, node_type, j - 1, suffix),
         dtype |-> datatype_list[j],
         shape |-> shape_list[j]]]

\* gs.Node(node_type, node_name, inputs=input_list, outputs=output_list, attrs=attribution)
Node(node_type, name, input_list, output_ids, attribution) ==
    [op |-> node_type, name |-> name, inputs |-> input_list,
     outputs |-> output_ids, attrs |-> attribution]

\* a return that never unwraps
returned_outputs_wrapped(output_ids) == [isSeq |-> TRUE, v |-> output_ids]

\* if len(output_list) == 1: output_list = output_list[0]
returned_outputs(output_ids) ==
    IF Len(output_ids) = 1
    THEN [isSeq |-> FALSE, v |-> output_ids[1]]
    ELSE [isSeq |-> TRUE, v |-> output_ids]

\* a return that hands the counter back as it came
next_number_same(number) == number

\* return output_list, number + 1
next_number(number) == number + 1

\* The whole of add_node on the current graph.  isList tells whether
\* datatype_list is a Python list; when it is not, datatype_list and
\* shape_list are one dtype and one shape.
add_node(node_type, input_list, attribution, isList, datatype_list, shape_list, prefix, suffix, number) ==
    /\ call' = [fn |-> "add_node", node_type |-> node_type, input_list |-> input_list,
                isList |-> isList, datatype_list |-> datatype_list,
                shape_list |-> shape_list, prefix |-> prefix, suffix |-> suffix,
                number |-> number]
    /\ pre' = Snapshot
    /\ IF ~assert_ok(isList, datatype_list, shape_list)
       THEN /\ ret' = [kind |-> "AssertionError"]
            /\ UNCHANGED <<nodes, tensors, inputs, outputs>>
       ELSE LET dl == as_list(isList, datatype_list)
                sl == as_list(isList, shape_list)
                new == output_list(dl, sl, prefix, suffix, number, node_type)
                ids == [j \in 1..Len(new) |-> Len(tensors) + j]
                node == Node(node_type, node_name(prefix, number, node_type),
                             input_list, ids, attribution)
            IN  /\ tensors' = tensors \o new
                /\ nodes' = Append(nodes, node)
                /\ ret' = [kind |-> "add_node",
                           outputs |-> returned_outputs(ids),
                           counter |-> next_number(number)]
                /\ UNCHANGED <<inputs, outputs>>

---------------------------------------------------------------------------
(* A caller that builds a graph with add_node, as the builders do: one     *)
(* scope name for the whole run, a counter that only grows, each call fed  *)
(* from the newest tensor.  An exception is not caught: it ends the run.   *)

OpTypes == {"Conv", "Conv-0"}
Suffixes == {"", "0"}
Prefixes == {"MNIST"}
StartCounters == {0, 9}
Dtypes == {"float32", "int64"}

DtypeAt(j) == IF j % 2 = 1 THEN "float32" ELSE "int64"
ShapeAt(j) == <<"B", Str(j)>>

\* graph = gs.Graph(nodes=[], inputs=[], outputs=[]); tensorX = gs.Variable(...)
EmptyGraph ==
    /\ nodes = <<>>
    /\ inputs = <<>>
    /\ outputs = <<>>

Init ==
    /\ EmptyGraph
    /\ tensors = <<[kind |-> "Variable", name |-> "tensorX", dtype |-> "float32",
                    shape |-> <<"B", "1", "28", "28">>]>>
    /\ n \in StartCounters
    /\ pc = "free"
    /\ \E p \in Prefixes : frame = [fn |-> "caller", scope_name |-> p, c0 |-> n]
    /\ call = NoCall
    /\ ret = NoRet
    /\ pre = Snapshot
    /\ calls = <<>>

\* the counters a caller passes: the one it holds, or one past it
Counters == {n, n + 1}

\* tensor, n = add_node(graph, op, [tensor], OrderedDict(), dtype, shape, scope_name, suffix, n)
CallSingle ==
    /\ pc = "free"
    /\ Len(nodes) < MaxNodes
    /\ \E node_type \in OpTypes, dtype \in Dtypes, suffix \in Suffixes, number \in Counters :
          /\ add_node(node_type, <<Len(tensors)>>, <<>>, FALSE, dtype, <<"B">>,
                      frame.scope_name, suffix, number)
          /\ n' = ret'.counter
          /\ calls' = Append(calls, [number |-> number, returned |-> ret'.counter])
    /\ UNCHANGED <<pc, frame>>

\* tensors, n = add_node(graph, op, [tensor], OrderedDict(), [dtypes], [shapes], scope_name, suffix, n)
CallMulti ==
    /\ pc = "free"
    /\ Len(nodes) < MaxNodes
    /\ \E node_type \in OpTypes, k \in 0..MaxOutputs, suffix \in Suffixes, number \in Counters :
          /\ add_node(node_type, <<Len(tensors)>>, <<>>, TRUE,
                      [j \in 1..k |-> DtypeAt(j)], [j \in 1..k |-> ShapeAt(j)],
                      frame.scope_name, suffix, number)
          /\ n' = ret'.counter
          /\ calls' = Append(calls, [number |-> number, returned |-> ret'.counter])
    /\ UNCHANGED <<pc, frame>>

\* the same call with lists of different lengths: the assertion fails, the
\* tuple assignment never happens and the exception leaves the caller
CallMismatch ==
    /\ pc = "free"
    /\ Len(nodes) < MaxNodes
    /\ \E node_type \in OpTypes, k \in 0..MaxOutputs, m \in 0..MaxOutputs,
          suffix \in Suffixes, number \in Counters :
          /\ k # m
          /\ add_node(node_type, <<Len(tensors)>>, <<>>, TRUE,
                      [j \in 1..k |-> DtypeAt(j)], [j \in 1..m |-> ShapeAt(j)],
                      frame.scope_name, suffix, number)
          /\ IF ret'.kind = "add_node"
             THEN /\ n' = ret'.counter
                  /\ calls' = Append(calls, [number |-> number, returned |-> ret'.counter])
                  /\ pc' = pc
             ELSE /\ pc' = "raised"
                  /\ UNCHANGED <<n, calls>>
    /\ UNCHANGED frame

Next == CallSingle \/ CallMulti \/ CallMismatch

Spec == Init /\ [][Next]_vars

---------------------------------------------------------------------------
(* mark_graph_output                                                       *)

\* lMarkOutput=None / lMarkInput=None
None == [given |-> FALSE, idx |-> <<>>]
Given(idx) == [given |-> TRUE, idx |-> idx]

\* node.name in lNode   (lNode is a list of names)
name_in(name, lNode) == \E i \in 1..Len(lNode) : lNode[i] = name

\* seq[index] of a Python list of length len: valid for -len <= index < len
index_ok(len, index) == -len <= index /\ index < len
index_pos(len, index) == IF index >= 0 THEN index + 1 ELSE len + index + 1

\* range(len(node.outputs))
range(count) == [j \in 1..count |-> j - 1]

\* if lMark is None or len(lNode) > 1: lMark = range(len(...))
\* (the rebinding of the local, which the next loop round sees)
rebind(lMark, lNode, count) ==
    IF ~lMark.given \/ Len(lNode) > 1 THEN Given(range(count)) ELSE lMark

\* a marking that leaves the dtype alone
marked_dtype_kept(old) == old

\* node.outputs[index].dtype = np.dtype(np.float32)
marked_dtype(old) == "float32"

\* a marking that never clears the old outputs
start_outputs_kept(bRemoveOldOutput, old) == old

\* if bRemoveOldOutput: graph.outputs = []
start_outputs(bRemoveOldOutput, old) == IF bRemoveOldOutput THEN <<>> ELSE old

\* for index in lMark: graph.outputs.append(ids[index]) [; ids[index].dtype = float32]
\* st is the state of the loop: graph.outputs, the heap, the two locals and
\* whether an IndexError left the function.
RECURSIVE mark_indices(_, _, _, _)
mark_indices(st, ids, idx, coerce) ==
    IF idx = <<>> THEN st
    ELSE IF ~index_ok(Len(ids), Head(idx)) THEN [st EXCEPT !.raised = TRUE]
    ELSE LET t == ids[index_pos(Len(ids), Head(idx))]
             heap == IF coerce
                     THEN [st.tensors EXCEPT ![t].dtype = marked_dtype(st.tensors[t].dtype)]
                     ELSE st.tensors
         IN  mark_indices([st EXCEPT !.outputs = Append(st.outputs, t), !.tensors = heap],
                          ids, Tail(idx), coerce)

\* a marking that coerces the marked inputs as it coerces the marked outputs
mark_node_coercing_inputs(st, node, lNode, bMarkOutput, bMarkInput) ==
    LET lo == rebind(st.lMarkOutput, lNode, Len(node.outputs))
        s1 == IF bMarkOutput
              THEN mark_indices([st EXCEPT !.lMarkOutput = lo], node.outputs, lo.idx, TRUE)
              ELSE st
        li == rebind(s1.lMarkInput, lNode, Len(node.inputs))
    IN  IF s1.raised \/ ~bMarkInput THEN s1
        ELSE mark_indices([s1 EXCEPT !.lMarkInput = li], node.inputs, li.idx, TRUE)

\* the body of `if node.name in lNode:`
mark_node(st, node, lNode, bMarkOutput, bMarkInput) ==
    LET lo == rebind(st.lMarkOutput, lNode, Len(node.outputs))
        s1 == IF bMarkOutput
              THEN mark_indices([st EXCEPT !.lMarkOutput = lo], node.outputs, lo.idx, TRUE)
              ELSE st
        li == rebind(s1.lMarkInput, lNode, Len(node.inputs))
    IN  IF s1.raised \/ ~bMarkInput THEN s1
        ELSE mark_indices([s1 EXCEPT !.lMarkInput = li], node.inputs, li.idx, FALSE)

\* for node in graph.nodes, from the k-th node on
RECURSIVE mark_loop(_, _, _, _, _, _)
mark_loop(st, ns, k, lNode, bMarkOutput, bMarkInput) ==
    IF k > Len(ns) \/ st.raised THEN st
    ELSE mark_loop(IF name_in(ns[k].name, lNode)
                   THEN mark_node(st, ns[k], lNode, bMarkOutput, bMarkInput)
                   ELSE st,
                   ns, k + 1, lNode, bMarkOutput, bMarkInput)

\* graph.cleanup(): the nodes that a graph output depends on, in their order.
\* T is the set of used tensors found so far.
RECURSIVE used_tensors(_, _)
used_tensors(ns, T) ==
    LET more == T \cup UNION {Range(ns[i].inputs) :
                                i \in {j \in 1..Len(ns) : Range(ns[j].outputs) \cap T # {}}}
    IN  IF more = T THEN T ELSE used_tensors(ns, more)

RECURSIVE keep(_, _)
keep(ns, T) ==
    IF ns = <<>> THEN <<>>
    ELSE IF Range(Head(ns).outputs) \cap T # {}
         THEN <<Head(ns)>> \o keep(Tail(ns), T)
         ELSE keep(Tail(ns), T)

cleanup(ns, outs) == keep(ns, used_tensors(ns, Range(outs)))

\* graph.toposort(): a stable sort of the nodes by their depth in the graph.
\* The depth of a node is 0 when no node produces one of its inputs, else one
\* more than the deepest producer; lv holds the depths found so far.
RECURSIVE relax(_, _, _)
relax(ns, lv, i) ==
    IF i > Len(ns) THEN <<>>
    ELSE LET below == {lv[j] : j \in {k \in 1..Len(ns) :
                                  Range(ns[k].outputs) \cap Range(ns[i].inputs) # {}}}
         IN  <<IF below = {} THEN 0 ELSE 1 + CHOOSE m \in below : \A x \in below : x <= m>>
                 \o relax(ns, lv, i + 1)

\* relaxed until nothing changes (the graph has no cycle)
RECURSIVE levels(_, _)
levels(ns, lv) ==
    LET next == relax(ns, lv, 1)
    IN  IF next = lv THEN lv ELSE levels(ns, next)

\* order: node indices sorted so far; i goes after every index not deeper than it
RECURSIVE insert(_, _, _)
insert(order, lv, i) ==
    IF order = <<>> THEN <<i>>
    ELSE IF lv[Head(order)] <= lv[i] THEN <<Head(order)>> \o insert(Tail(order), lv, i)
    ELSE <<i>> \o order

RECURSIVE sorted(_, _)
sorted(lv, k) == IF k = 0 THEN <<>> ELSE insert(sorted(lv, k - 1), lv, k)

toposort(ns) ==
    LET lv == levels(ns, [i \in 1..Len(ns) |-> 0])
        order == sorted(lv, Len(ns))
    IN  [p \in 1..Len(ns) |-> ns[order[p]]]

\* a return that counts the names found in the graph
returned_count_found(lNode) ==
    Cardinality({i \in 1..Len(lNode) : \E k \in 1..Len(nodes) : nodes[k].name = lNode[i]})

\* return len(lNode)
returned_count(lNode) == Len(lNode)

\* The whole of mark_graph_output on the current graph.
mark_graph_output(lNode, bMarkOutput, bMarkInput, lMarkOutput, lMarkInput, bRemoveOldOutput) ==
    LET st0 == [outputs |-> start_outputs(bRemoveOldOutput, outputs), tensors |-> tensors,
                lMarkOutput |-> lMarkOutput, lMarkInput |-> lMarkInput, raised |-> FALSE]
        st == mark_loop(st0, nodes, 1, lNode, bMarkOutput, bMarkInput)
    IN  /\ call' = [fn |-> "mark_graph_output", lNode |-> lNode,
                    bMarkOutput |-> bMarkOutput, bMarkInput |-> bMarkInput,
                    lMarkOutput |-> lMarkOutput, lMarkInput |-> lMarkInput,
                    bRemoveOldOutput |-> bRemoveOldOutput]
        /\ pre' = Snapshot
        /\ outputs' = st.outputs
        /\ tensors' = st.tensors
        /\ UNCHANGED inputs
        /\ IF st.raised
           THEN /\ ret' = [kind |-> "IndexError"]
                /\ UNCHANGED nodes
           ELSE /\ nodes' = toposort(cleanup(nodes, st.outputs))
                /\ ret' = [kind |-> "mark_graph_output", value |-> returned_count(lNode)]

---------------------------------------------------------------------------
(* A caller of mark_graph_output: a graph loaded from a model file (node   *)
(* names are whatever the file holds, not necessarily distinct), marked    *)
(* once.                                                                   *)

MaxGraphNodes == 2      \* nodes of a loaded graph

NodeNames == {"Conv", "Relu"}
OutputCounts == {1, 2}

NodeNameLists == {<<>>, <<"Conv">>, <<"Gemm">>, <<"Conv", "Relu">>, <<"Gemm", "Conv">>}
IndexLists == {None, Given(<<0>>), Given(<<1>>), Given(<<-1, 0>>)}
InputIndexLists == {None, Given(<<0>>)}

\* inputT0 and a weight, no node yet
BaseGraph ==
    [nodes |-> <<>>,
     tensors |-> <<[kind |-> "Variable", name |-> "inputT0", dtype |-> "float32", shape |-> <<"B">>],
                   [kind |-> "Constant", name |-> "weight", dtype |-> "float32", shape |-> <<"1">>]>>]

\* g with one more node, fed by the outputs of the last node (the first by
\* inputT0 and the weight)
Extend(g, name, count, dtype) ==
    LET base == Len(g.tensors)
        ids == [j \in 1..count |-> base + j]
        ins == IF g.nodes = <<>> THEN <<1, 2>> ELSE g.nodes[Len(g.nodes)].outputs
    IN  [nodes |-> Append(g.nodes, Node(name, name, ins, ids, <<>>)),
         tensors |-> g.tensors \o [j \in 1..count |->
                        [kind |-> "Variable", name |-> "t" \o Str(base + j),
                         dtype |-> dtype, shape |-> <<"B">>]]]

RECURSIVE LoadedGraphs(_)
LoadedGraphs(k) ==
    IF k = 0 THEN {BaseGraph}
    ELSE {Extend(g, name, count, dtype) :
            g \in LoadedGraphs(k - 1), name \in NodeNames, count \in OutputCounts, dtype \in Dtypes}

InitMark ==
    /\ \E k \in 1..MaxGraphNodes : \E g \in LoadedGraphs(k) :
          /\ nodes = g.nodes
          /\ tensors = g.tensors
          /\ outputs \in {<<>>, g.nodes[Len(g.nodes)].outputs}
    /\ inputs = <<1>>
    /\ n = 0
    /\ pc = "loaded"
    /\ frame = [fn |-> "marker"]
    /\ call = NoCall
    /\ ret = NoRet
    /\ pre = Snapshot
    /\ calls = <<>>

\* mark_graph_output(graph, lNode, bMarkOutput, bMarkInput, lMarkOutput, lMarkInput, bRemoveOldOutput)
MarkGraphOutput ==
    /\ pc = "loaded"
    /\ \E lNode \in NodeNameLists, bMarkOutput \in BOOLEAN, bMarkInput \in BOOLEAN,
          lMarkOutput \in IndexLists, lMarkInput \in InputIndexLists,
          bRemoveOldOutput \in BOOLEAN :
          mark_graph_output(lNode, bMarkOutput, bMarkInput, lMarkOutput, lMarkInput,
                            bRemoveOldOutput)
    /\ pc' = IF ret'.kind = "IndexError" THEN "raised" ELSE "marked"
    /\ UNCHANGED <<n, frame, calls>>

NextMark == MarkGraphOutput

SpecMark == InitMark /\ [][NextMark]_vars

---------------------------------------------------------------------------
(* The builders build_*_network_onnx.  Each one creates its tensors and    *)
(* constants, sets n = 0 and a scope name, calls add_node once per layer,  *)
(* declares the graph's inputs and outputs, runs cleanup().toposort() and  *)
(* exports.  A builder is written down as data: its heap before the first  *)
(* add_node call, its calls in order, and its inputs and outputs.  In a    *)
(* call, a positive reference k is the k-th object the builder created     *)
(* itself and a negative reference -k is its local tensor<k>.              *)

Var(name, dtype, shape) == [kind |-> "Variable", name |-> name, dtype |-> dtype, shape |-> shape]
Const(name, dtype, shape) == [kind |-> "Constant", name |-> name, dtype |-> dtype, shape |-> shape]
Step(op, ins, attrs, dtype, shape) ==
    [op |-> op, ins |-> ins, attrs |-> attrs, dtype |-> dtype, shape |-> shape]

ConvAttrs == <<<<"kernel_shape", "[5, 5]">>, <<"pads", "[2, 2, 2, 2]">>>>
PoolAttrs == <<<<"kernel_shape", "[2, 2]">>, <<"pads", "[0, 0, 0, 0]">>, <<"strides", "[2, 2]">>>>
ReduceAttrs == <<<<"axes", "[0]">>, <<"keepdims", "1">>>>

\* graph.outputs = [tensor13] : the logits alone
MnistOutputs_logits_only == <<-13>>

\* graph.outputs = [tensor13, tensor15]
MnistOutputs == <<-13, -15>>

build_mnist_network_onnx ==
    [scope_name |-> "MNIST",
     heap |-> <<Var("tensorX", "float32", <<"B", "1", "28", "28">>),
                Const("constant32x1x5x5", "float32", <<"32", "1", "5", "5">>),
                Const("constant32", "float32", <<"32">>),
                Const("constant64x32x5x5", "float32", <<"64", "32", "5", "5">>),
                Const("constant64", "float32", <<"64">>),
                Const("constantM1Comma3136", "int64", <<"2">>),
                Const("constant3136x1024", "float32", <<"3136", "1024">>),
                Const("constant1024", "float32", <<"1024">>),
                Const("constant1024x10", "float32", <<"1024", "10">>),
                Const("constant10", "float32", <<"10">>)>>,
     steps |-> <<Step("Conv", <<1, 2, 3>>, ConvAttrs, "float32", <<"B", "32", "28", "28">>),
                 Step("Relu", <<-1>>, <<>>, "float32", <<"B", "32", "28", "28">>),
                 Step("MaxPool", <<-2>>, PoolAttrs, "float32", <<"B", "32", "14", "14">>),
                 Step("Conv", <<-3, 4, 5>>, ConvAttrs, "float32", <<"B", "64", "14", "14">>),
                 Step("Relu", <<-4>>, <<>>, "float32", <<"B", "64", "14", "14">>),
                 Step("MaxPool", <<-5>>, PoolAttrs, "float32", <<"B", "64", "7", "7">>),
                 Step("Transpose", <<-6>>, <<<<"perm", "[0, 2, 3, 1]">>>>, "float32",
                      <<"B", "7", "7", "64">>),
                 Step("Reshape", <<-7, 6>>, <<>>, "float32", <<"B", "3136">>),
                 Step("MatMul", <<-8, 7>>, <<>>, "float32", <<"B", "1024">>),
                 Step("Add", <<-9, 8>>, <<>>, "float32", <<"B", "1024">>),
                 Step("Relu", <<-10>>, <<>>, "float32", <<"B", "1024">>),
                 Step("MatMul", <<-11, 9>>, <<>>, "float32", <<"B", "10">>),
                 Step("Add", <<-12, 10>>, <<>>, "float32", <<"B", "10">>),
                 Step("Softmax", <<-13>>, <<<<"axis", "1">>>>, "float32", <<"B", "10">>),
                 Step("ArgMax", <<-14>>, <<<<"axis", "1">>, <<"keepdims", "0">>>>, "int64",
                      <<"B">>)>>,
     inputs |-> <<1>>,
     outputs |-> MnistOutputs]

build_half_mnist_network_onnx ==
    [scope_name |-> "HALF_MNIST",
     heap |-> <<Var("tensorX", "float32", <<"B", "1", "28", "28">>),
                Const("constant32x1x5x5", "float32", <<"32", "1", "5", "5">>),
                Const("constant32", "float32", <<"32">>),
                Const("constant64x32x5x5", "float32", <<"64", "32", "5", "5">>),
                Const("constant64", "float32", <<"64">>)>>,
     steps |-> <<Step("Conv", <<1, 2, 3>>, ConvAttrs, "float32", <<"B", "32", "28", "28">>),
                 Step("Relu", <<-1>>, <<>>, "float32", <<"B", "32", "28", "28">>),
                 Step("MaxPool", <<-2>>, PoolAttrs, "float32", <<"B", "32", "14", "14">>),
                 Step("Conv", <<-3, 4, 5>>, ConvAttrs, "float32", <<"B", "64", "14", "14">>),
                 Step("Relu", <<-4>>, <<>>, "float32", <<"B", "64", "14", "14">>),
                 Step("MaxPool", <<-5>>, PoolAttrs, "float32", <<"B", "64", "7", "7">>)>>,
     inputs |-> <<1>>,
     outputs |-> <<-6>>]

build_custom_op_network_onnx ==
    [scope_name |-> "CustomOpModel",
     heap |-> <<Var("inputT0", "float32", <<"nBS">>)>>,
     steps |-> <<Step("AddScalar", <<1>>, <<<<"scalar", "1.0">>>>, "float32", <<"nBS">>)>>,
     inputs |-> <<1>>,
     outputs |-> <<-1>>]

build_invalid_network_onnx ==
    [scope_name |-> "InvalidModel",
     heap |-> <<Var("tensorT0", "float32", <<"nBS">>),
                Const("constant0", "float32", <<"1">>)>>,
     steps |-> <<Step("Div", <<1, 2>>, <<>>, "float32", <<"nBS">>)>>,
     inputs |-> <<1>>,
     outputs |-> <<-1>>]

\* batch_name = 7 if b_static_batch else "nBS"
build_redundant_network_onnx(b_static_batch) ==
    LET batch_name == IF b_static_batch THEN "7" ELSE "nBS"
    IN  [scope_name |-> "RedundantModel",
         heap |-> <<Var("inputT0", "float32", <<batch_name, "2", "3", "4">>),
                    Const("constant0C1", "int64", <<"2">>),
                    Const("constant2C3", "int64", <<"2">>)>>,
         steps |-> <<Step("Shape", <<1>>, <<>>, "int64", <<"4">>),
                     Step("ReduceProd", <<-1>>, ReduceAttrs, "int64", <<"1">>),
                     Step("Reshape", <<1, -2>>, <<>>, "float32", <<batch_name \o "*24">>),
                     Step("Gather", <<-1, 2>>, <<>>, "int64", <<"2">>),
                     Step("Gather", <<-1, 3>>, <<>>, "int64", <<"2">>),
                     Step("ReduceProd", <<-5>>, ReduceAttrs, "int64", <<"1">>),
                     Step("Concat", <<-4, -6>>, <<<<"axis", "0">>>>, "int64", <<"4">>),
                     Step("Reshape", <<1, -7>>, <<>>, "float32", <<batch_name, "2", "12">>)>>,
         inputs |-> <<1>>,
         outputs |-> <<-3, -8>>]

build_unknown_network_onnx ==
    [scope_name |-> "UnknownModel",
     heap |-> <<Var("x", "float32", <<"B">>)>>,
     steps |-> <<Step("Identity", <<1>>, <<>>, "float32", <<"B">>),
                 Step("UnknownNode1", <<-1>>, <<>>, "float32", <<"B">>),
                 Step("Identity", <<-2>>, <<>>, "float32", <<"B">>),
                 Step("UnknownNode2", <<-3>>, <<>>, "float32", <<"B">>),
                 Step("Identity", <<-4>>, <<>>, "float32", <<"B">>)>>,
     inputs |-> <<1>>,
     outputs |-> <<-5>>]

build_reshape_network_onnx ==
    [scope_name |-> "ReshapeModel",
     heap |-> <<Var("inputT0", "float32", <<"-1", "-1", "-1">>),
                Var("inputT1", "int32", <<"3">>)>>,
     steps |-> <<Step("MyReshape", <<1, 2>>,
                      <<<<"tensorrt_plugin_shape_input_indices", "[1]">>>>, "float32",
                      <<"-1", "-1", "-1">>)>>,
     inputs |-> <<1, 2>>,
     outputs |-> <<-1>>]

Builders == {"build_mnist_network_onnx", "build_half_mnist_network_onnx",
             "build_custom_op_network_onnx", "build_invalid_network_onnx",
             "build_redundant_network_onnx", "build_unknown_network_onnx",
             "build_reshape_network_onnx"}

Script(fn, b_static_batch) ==
    CASE fn = "build_mnist_network_onnx" -> build_mnist_network_onnx
      [] fn = "build_half_mnist_network_onnx" -> build_half_mnist_network_onnx
      [] fn = "build_custom_op_network_onnx" -> build_custom_op_network_onnx
      [] fn = "build_invalid_network_onnx" -> build_invalid_network_onnx
      [] fn = "build_redundant_network_onnx" -> build_redundant_network_onnx(b_static_batch)
      [] fn = "build_unknown_network_onnx" -> build_unknown_network_onnx
      [] fn = "build_reshape_network_onnx" -> build_reshape_network_onnx

\* export_file_name: str = None
ExportFileNames == {"", "model.onnx"}

\* the object a reference of the running builder stands for
Resolve(ref) == IF ref > 0 THEN ref ELSE frame.locals[-ref]
ResolveAll(refs) == [j \in 1..Len(refs) |-> Resolve(refs[j])]

TheScript == Script(frame.fn, frame.b_static_batch)

\* the builder is entered, its tensors and constants exist, n = 0
InitBuild ==
    /\ EmptyGraph
    /\ \E fn \in Builders, export_file_name \in ExportFileNames, b_static_batch \in BOOLEAN :
          /\ b_static_batch => fn = "build_redundant_network_onnx"
          /\ frame = [fn |-> fn, export_file_name |-> export_file_name,
                      b_static_batch |-> b_static_batch, locals |-> <<>>, saved |-> FALSE]
          /\ tensors = Script(fn, b_static_batch).heap
    /\ n = 0
    /\ pc = "add_node"
    /\ call = NoCall
    /\ ret = NoRet
    /\ pre = Snapshot
    /\ calls = <<>>

\* tensor<k>, n = add_node(graph, op, [...], OrderedDict(...), dtype, shape, scope_name, "", n)
\* for the next k: the locals bound so far are tensor1 .. tensor<k-1>
BuildAddNode ==
    /\ pc = "add_node"
    /\ LET step == TheScript.steps[Len(frame.locals) + 1]
       IN  add_node(step.op, ResolveAll(step.ins), step.attrs, FALSE, step.dtype, step.shape,
                    TheScript.scope_name, "", n)
    /\ n' = ret'.counter
    /\ frame' = [frame EXCEPT !.locals = Append(@, ret'.outputs.v)]
    /\ calls' = Append(calls, [number |-> n, returned |-> ret'.counter])
    /\ pc' = IF Len(frame.locals) + 1 = Len(TheScript.steps) THEN "declare" ELSE pc

\* graph.inputs = [...]; graph.outputs = [...]
BuildDeclare ==
    /\ pc = "declare"
    /\ inputs' = ResolveAll(TheScript.inputs)
    /\ outputs' = ResolveAll(TheScript.outputs)
    /\ pc' = "cleanup"
    /\ UNCHANGED <<nodes, tensors, n, frame, call, ret, pre, calls>>

\* graph.cleanup().toposort()
BuildCleanup ==
    /\ pc = "cleanup"
    /\ pre' = Snapshot
    /\ nodes' = toposort(cleanup(nodes, outputs))
    /\ pc' = "export"
    /\ UNCHANGED <<tensors, inputs, outputs, n, frame, call, ret, calls>>

\* onnx_model = gs.export_onnx(graph); if export_file_name: onnx.save(...); return onnx_model
BuildExport ==
    /\ pc = "export"
    /\ ret' = [kind |-> "onnx_model", nodes |-> nodes, inputs |-> inputs, outputs |-> outputs]
    /\ frame' = [frame EXCEPT !.saved = Len(frame.export_file_name) > 0]
    /\ pc' = "done"
    /\ UNCHANGED <<nodes, tensors, inputs, outputs, n, call, pre, calls>>

NextBuild == BuildAddNode \/ BuildDeclare \/ BuildCleanup \/ BuildExport

SpecBuild == InitBuild /\ [][NextBuild]_vars

---------------------------------------------------------------------------
(* Properties of add_node, stated on the most recent call (`call`), its    *)
(* outcome (`ret`) and the graph before (`pre`) and after it.              *)

IsAddNodeCall == call.fn = "add_node"
Returned == ret.kind = "add_node"
Mismatched ==
    IsAddNodeCall /\ call.isList /\ Len(call.datatype_list) # Len(call.shape_list)

\* the Value Placeholders a successful call returned, as a sequence
ReturnedSeq == IF ret.outputs.isSeq THEN ret.outputs.v ELSE <<ret.outputs.v>>

\* the tensor name the naming convention gives output position i (from 0)
ExpectedTensorName(i) ==
    IF call.suffix = ""
    THEN call.prefix \o "-V-" \o Str(call.number) \o "-" \o call.node_type \o "-" \o Str(i)
    ELSE call.prefix \o "-V-" \o Str(call.number) \o "-" \o call.node_type \o "-" \o Str(i)
             \o "-" \o call.suffix

\* exactly one node was appended and its outputs are the tensors `ids`
AppendedOneNodeWith(ids) ==
    /\ Len(nodes) = Len(pre.nodes) + 1
    /\ SubSeq(nodes, 1, Len(pre.nodes)) = pre.nodes
    /\ nodes[Len(nodes)].outputs = ids

\* C1: add_node called with dtype and shape lists of different lengths
\* raises before any mutation: the node sequence (and so the node count) and
\* the tensors are those of before the call, and nothing (no outputs, no
\* counter) is returned.
C1_MismatchFailsBeforeMutation ==
    Mismatched =>
        /\ ret = [kind |-> "AssertionError"]
        /\ nodes = pre.nodes
        /\ Len(nodes) = Len(pre.nodes)
        /\ tensors = pre.tensors
        /\ outputs = pre.outputs /\ inputs = pre.inputs

\* two dtypes against one shape, on a graph that already holds a node
C1_Witness ==
    /\ Mismatched
    /\ Len(call.datatype_list) = 2 /\ Len(call.shape_list) = 1
    /\ ret.kind = "AssertionError"
    /\ Len(nodes) >= 1

\* C2: a successful add_node call with N output descriptors (lists of equal
\* length N, N = 0 and N = 1 included) returns exactly N Value Placeholders,
\* named {prefix}-V-{counter}-{op_type}-{i}[-{suffix}] for i = 0 .. N-1 in
\* order, and the node sequence grows by exactly one node whose outputs are
\* those N placeholders.
C2_ReturnsNPlaceholdersOneNode ==
    (IsAddNodeCall /\ call.isList /\ Returned) =>
        LET N == Len(call.datatype_list)
        IN  /\ Len(ReturnedSeq) = N
            /\ \A i \in 0..(N - 1) :
                  /\ tensors[ReturnedSeq[i + 1]].name = ExpectedTensorName(i)
                  /\ tensors[ReturnedSeq[i + 1]].dtype = call.datatype_list[i + 1]
                  /\ tensors[ReturnedSeq[i + 1]].shape = call.shape_list[i + 1]
            /\ AppendedOneNodeWith(ReturnedSeq)
            /\ Cardinality(Range(ReturnedSeq)) = N

C2_Witness ==
    /\ IsAddNodeCall /\ call.isList /\ Returned
    /\ Len(call.datatype_list) = 2
    /\ call.suffix # ""
    /\ Len(pre.nodes) = 1

\* C3: a successful add_node call whose output description is one (dtype,
\* shape) pair returns one Value Placeholder, not a sequence, named
\* {prefix}-V-{counter}-{op_type}-0 (with -{suffix} appended when suffix is
\* not empty), and the appended node has exactly that one output.
C3_SinglePairReturnsOnePlaceholder ==
    (IsAddNodeCall /\ ~call.isList /\ Returned) =>
        /\ ~ret.outputs.isSeq
        /\ ret.outputs.v \in (Len(pre.tensors) + 1)..Len(tensors)
        /\ tensors[ret.outputs.v].name = ExpectedTensorName(0)
        /\ tensors[ret.outputs.v].dtype = call.datatype_list
        /\ tensors[ret.outputs.v].shape = call.shape_list
        /\ AppendedOneNodeWith(<<ret.outputs.v>>)

C3_Witness ==
    /\ IsAddNodeCall /\ ~call.isList /\ Returned
    /\ call.suffix = "0"
    /\ tensors[ret.outputs.v].name = "MNIST-V-10-Conv-0-0-0"

\* every generated name: the node names, and the names of the tensors
\* add_node created (the heap but tensorX)
GeneratedNames ==
    [i \in 1..Len(nodes) |-> nodes[i].name]
        \o [i \in 1..(Len(tensors) - 1) |-> tensors[i + 1].name]

StrictlyIncreasing ==
    \A i \in 1..Len(calls), j \in 1..Len(calls) : i < j => calls[i].number < calls[j].number

\* C4: in a chain of add_node calls with one prefix and strictly increasing
\* counters, whatever the op types, suffixes and output counts, all
\* generated node and tensor names are pairwise distinct (the outputs of one
\* node among themselves, and node names against tensor names, included).
C4_NamesPairwiseDistinct ==
    StrictlyIncreasing =>
        \A i \in 1..Len(GeneratedNames), j \in 1..Len(GeneratedNames) :
            i # j => GeneratedNames[i] # GeneratedNames[j]

\* counters 9 and 10, a node with two outputs, op types and suffixes that
\* end in the same characters as an output position
C4_Witness ==
    /\ Len(calls) = 2
    /\ calls[1].number = 9 /\ calls[2].number = 10
    /\ Len(nodes[1].outputs) = 2
    /\ nodes[1].op = "Conv" /\ nodes[2].op = "Conv-0"
    /\ tensors[2].name = "MNIST-V-9-Conv-0-0"
    /\ StrictlyIncreasing

\* each call received the counter the previous call returned
Threaded ==
    \A i \in 1..Len(calls) :
        calls[i].number = IF i = 1 THEN frame.c0 ELSE calls[i - 1].returned

\* C5: a successful add_node call returns counter + 1, whatever the number
\* of outputs; so in a chain where every call gets the counter the previous
\* one returned, starting from c0, the counter after k successful calls is
\* c0 + k, no two calls get the same counter and the counter never decreases.
C5_ReturnsCounterPlusOne ==
    /\ (IsAddNodeCall /\ Returned) => ret.counter = call.number + 1
    /\ \A i \in 1..Len(calls) : calls[i].returned = calls[i].number + 1
    /\ Threaded =>
          /\ n = frame.c0 + Len(calls)
          /\ \A i \in 1..Len(calls), j \in 1..Len(calls) :
                i < j => calls[i].number < calls[j].number
          /\ \A i \in 1..Len(calls) : calls[i].returned >= calls[i].number

\* a threaded chain of MaxNodes calls, with a two-output and a one-output call
C5_Witness ==
    /\ Threaded
    /\ Len(calls) = MaxNodes
    /\ frame.c0 = 9
    /\ Len(nodes[1].outputs) = 2
    /\ Len(nodes[2].outputs) = 1

---------------------------------------------------------------------------
(* Properties of mark_graph_output, stated on the most recent call, its    *)
(* outcome and the graph before (`pre`) and after it.                      *)

IsMarkCall == call.fn = "mark_graph_output"
MarkReturned == ret.kind = "mark_graph_output"

\* the nodes of the graph, as the call found it, whose name is in node_names
MatchedNodes == {i \in 1..Len(pre.nodes) : pre.nodes[i].name \in Range(call.lNode)}

\* C6: mark_graph_output(graph, ["Conv"]) with remove_old_output and
\* mark_output true, mark_input false and no output_indices, on a graph with
\* exactly one node named "Conv", returns with the graph's output list equal
\* to that node's outputs, in order and nothing else, whatever the outputs
\* were before, and each of them is float32 whatever its dtype was.
C6_MarkConvReplacesOutputs ==
    (/\ IsMarkCall
     /\ call.lNode = <<"Conv">>
     /\ call.bRemoveOldOutput /\ call.bMarkOutput /\ ~call.bMarkInput
     /\ ~call.lMarkOutput.given
     /\ Cardinality({i \in 1..Len(pre.nodes) : pre.nodes[i].name = "Conv"}) = 1)
    => LET conv == CHOOSE i \in 1..Len(pre.nodes) : pre.nodes[i].name = "Conv"
       IN  /\ MarkReturned
           /\ outputs = pre.nodes[conv].outputs
           /\ \A p \in 1..Len(outputs) : tensors[outputs[p]].dtype = "float32"

\* the Conv node has two int64 outputs, another node follows it and the
\* graph had that node's outputs as its outputs
C6_Witness ==
    /\ IsMarkCall /\ MarkReturned
    /\ call.lNode = <<"Conv">>
    /\ call.bRemoveOldOutput /\ call.bMarkOutput /\ ~call.bMarkInput
    /\ ~call.lMarkOutput.given
    /\ Len(pre.nodes) = 2
    /\ pre.nodes[1].name = "Conv" /\ pre.nodes[2].name = "Relu"
    /\ Len(pre.nodes[1].outputs) = 2
    /\ \A p \in 1..2 : pre.tensors[pre.nodes[1].outputs[p]].dtype = "int64"
    /\ pre.outputs = pre.nodes[2].outputs
    /\ outputs = pre.nodes[1].outputs

\* C8: whenever mark_graph_output returns, it returns the number of entries
\* of node_names, whether none, some or all of them name a node of the graph
\* and whatever the flags are.
C8_ReturnsLenOfNodeNames ==
    (IsMarkCall /\ MarkReturned) => ret.value = Len(call.lNode)

\* two names searched for, one of them found
C8_Witness ==
    /\ IsMarkCall /\ MarkReturned
    /\ call.lNode = <<"Conv", "Relu">>
    /\ \A i \in 1..Len(pre.nodes) : pre.nodes[i].name = "Conv"
    /\ ret.value = 2

\* the outputs the rule of C9 selects for a node with outputs ids
SelectedOutputs(ids) ==
    IF Len(call.lNode) = 1 /\ call.lMarkOutput.given
    THEN [j \in 1..Len(call.lMarkOutput.idx) |->
              ids[index_pos(Len(ids), call.lMarkOutput.idx[j])]]
    ELSE ids

\* what the call appended
Appended ==
    SubSeq(outputs, (IF call.bRemoveOldOutput THEN 0 ELSE Len(pre.outputs)) + 1, Len(outputs))

\* C9: with mark_output true (and mark_input false, so that only outputs
\* are marked), the placeholders a returning call marks are, for each
\* matched node in node order, the node's outputs at output_indices when
\* node_names has one entry and output_indices is given, and all of the
\* node's outputs in every other case.
C9_SelectionRule ==
    (IsMarkCall /\ MarkReturned /\ call.bMarkOutput /\ ~call.bMarkInput) =>
        Appended = Concat([i \in 1..Len(pre.nodes) |->
                              IF i \in MatchedNodes
                              THEN SelectedOutputs(pre.nodes[i].outputs)
                              ELSE <<>>])

\* the tensors the call may mark: outputs (inputs) of the matched nodes
Markable ==
    UNION {(IF call.bMarkOutput THEN Range(pre.nodes[i].outputs) ELSE {})
              \cup (IF call.bMarkInput THEN Range(pre.nodes[i].inputs) ELSE {}) :
           i \in MatchedNodes}

\* C10: with remove_old_output true the output list after the call holds
\* only placeholders this call marked (none when no name matches); with
\* remove_old_output false the previous outputs stay, in their order, as a
\* prefix of the list and the placeholders this call marked follow them.
C10_RemoveOldOutputDecides ==
    IsMarkCall =>
        LET kept == IF call.bRemoveOldOutput THEN <<>> ELSE pre.outputs
        IN  /\ Len(outputs) >= Len(kept)
            /\ SubSeq(outputs, 1, Len(kept)) = kept
            /\ \A p \in (Len(kept) + 1)..Len(outputs) : outputs[p] \in Markable
            /\ MatchedNodes = {} => outputs = kept

\* old outputs kept and two new ones after them
C10_Witness ==
    /\ IsMarkCall /\ MarkReturned
    /\ ~call.bRemoveOldOutput
    /\ Len(pre.outputs) = 2
    /\ Len(outputs) = 4
    /\ outputs[3] \notin Range(pre.outputs)

\* the tensors whose dtype the call changed
Retyped == {t \in 1..Len(pre.tensors) : tensors[t].dtype # pre.tensors[t].dtype}

MatchedOutputs == UNION {Range(pre.nodes[i].outputs) : i \in MatchedNodes}
MatchedInputs == UNION {Range(pre.nodes[i].inputs) : i \in MatchedNodes}

---------------------------------------------------------------------------
(* The classifier builder.                                                 *)

MnistOps == <<"Conv", "Relu", "MaxPool", "Conv", "Relu", "MaxPool", "Transpose", "Reshape",
              "MatMul", "Add", "Relu", "MatMul", "Add", "Softmax", "ArgMax">>

\* C7: build_mnist_network_onnx leaves, after cleanup/toposort, a graph of
\* exactly 15 nodes (the pass removes none), created with the counters
\* 0..14 in order, whose outputs are exactly the logits (output of the last
\* Add, input of Softmax) and the class index (output of ArgMax), and whose
\* only input is tensorX.
C7_MnistGraph ==
    (frame.fn = "build_mnist_network_onnx" /\ pc \in {"export", "done"}) =>
        /\ Len(nodes) = 15
        /\ nodes = pre.nodes
        /\ \A i \in 1..15 :
              /\ nodes[i].op = MnistOps[i]
              /\ nodes[i].name = "MNIST-N-" \o Str(i - 1) \o "-" \o MnistOps[i]
              /\ calls[i].number = i - 1
        /\ Len(outputs) = 2
        /\ outputs[1] = nodes[13].outputs[1] /\ nodes[13].op = "Add"
        /\ nodes[14].op = "Softmax" /\ nodes[14].inputs = <<outputs[1]>>
        /\ outputs[2] = nodes[15].outputs[1] /\ nodes[15].op = "ArgMax"
        /\ \A i \in 14..15 : nodes[i].op # "Add"
        /\ tensors[outputs[1]].name = "MNIST-V-12-Add-0"
        /\ tensors[outputs[2]].name = "MNIST-V-14-ArgMax-0"
        /\ Len(inputs) = 1 /\ tensors[inputs[1]].name = "tensorX"

C7_Witness ==
    /\ frame.fn = "build_mnist_network_onnx"
    /\ pc = "done"
    /\ Len(nodes) = 15
    /\ ret.kind = "onnx_model"
    /\ n = 15
=============================================================================
